---- MODULE Spec2Model ----
(***************************************************************************)
(* Tic-tac-toe decision engine: the Board class, the minimax solver and    *)
(* the three HTTP endpoints of server/api/routes/game_routes.py.           *)
(*                                                                         *)
(* A Python list is a function with domain 0..(n-1), so cell and move      *)
(* indices are the source's 0-based indices.  Python's None is the value   *)
(* None below (distinct from DRAW = 0, as `is None` requires).  List       *)
(* objects live in a heap (a sequence of lists); a Board holds a reference *)
(* (a heap index) to its grid, so that two names for one list are two      *)
(* references to one heap cell, as in Python.                              *)
(***************************************************************************)
EXTENDS Integers, Sequences, FiniteSets, TLC

VARIABLES heap,    \* the Python list objects: heap[1] is the caller's list
          board,   \* the Board object under test, or NoBoard
          ret,     \* what the last call returned (a record naming the call)
          turn,    \* the player to move in a game played through the endpoints
          ai,      \* the side the AI plays in such a game (None: no side fixed)
          board_copy  \* the Board a clone() call returned, or NoBoard

vars == <<heap, board, ret, turn, ai, board_copy>>

(***************************************************************************)
(* Constants of the source.                                                *)
(***************************************************************************)
None == -1
DIMENSIONS == 3
DRAW == 0
PLAYER_X == 1
PLAYER_O == 2
\* SCORES with PLAYER_O's win scored like PLAYER_X's.
SCORES_unsigned == [w \in {PLAYER_X, DRAW, PLAYER_O} |->
                      IF w = DRAW THEN 0 ELSE 1]
SCORES == [w \in {PLAYER_X, DRAW, PLAYER_O} |->
             IF w = PLAYER_X THEN 1 ELSE IF w = DRAW THEN 0 ELSE -1]
GAME_MODES == {"easy", "medium", "difficult"}

Players == {PLAYER_X, PLAYER_O}
CellValues == {None, PLAYER_X, PLAYER_O}

(***************************************************************************)
(* Python lists.                                                           *)
(***************************************************************************)
len(l) == Cardinality(DOMAIN l)
ListsOver(n, values) == [0..(n - 1) -> values]
\* list.copy(): the same cells; the new object is the heap cell it is put in
copy(l) == l
NewList(n) == [i \in 0..(n - 1) |-> None]

(***************************************************************************)
(* class Board.  A Board is [grid |-> reference, winning_index |-> ...].   *)
(* Methods that allocate or write return the heap they leave behind.       *)
(***************************************************************************)
NoBoard == [grid |-> 0, winning_index |-> None]
NoArg == <<>>
Arg(l) == <<l>>

\* Board.__init__ as it would be with a length check that falls back to a new
\* empty grid.
Board_init_checked(h, ref) ==
    IF ref = None \/ len(h[ref]) # DIMENSIONS * DIMENSIONS
    THEN [h |-> Append(h, NewList(DIMENSIONS * DIMENSIONS)),
          b |-> [grid |-> Len(h) + 1, winning_index |-> None]]
    ELSE [h |-> h, b |-> [grid |-> ref, winning_index |-> None]]

\* Board.__init__(grid): keeps the reference it is given (no copy, no check
\* of the length); without an argument it allocates a list of 9 None.
Board_init(h, ref) ==
    IF ref = None
    THEN [h |-> Append(h, NewList(DIMENSIONS * DIMENSIONS)),
          b |-> [grid |-> Len(h) + 1, winning_index |-> None]]
    ELSE [h |-> h, b |-> [grid |-> ref, winning_index |-> None]]

\* make_move without the test of line 32.
make_move_overwrite(h, self, square, player) ==
    [h EXCEPT ![self.grid] = [@ EXCEPT ![square] = player]]
\* make_move that never writes.
make_move_skipped(h, self, square, player) == h
\* Board.make_move(square, player): writes the cell only if it is None.
make_move(h, self, square, player) ==
    IF h[self.grid][square] = None
    THEN [h EXCEPT ![self.grid] = [@ EXCEPT ![square] = player]]
    ELSE h

\* Board.get_empty_squares(grid): the indices of the None cells, ascending.
RECURSIVE empty_from(_, _, _)
empty_from(grid, i, n) ==
    IF i >= n THEN <<>>
    ELSE IF grid[i] = None THEN <<i>> \o empty_from(grid, i + 1, n)
    ELSE empty_from(grid, i + 1, n)
\* get_empty_squares enumerating from index 1.
get_empty_squares_from_one(grid) == empty_from(grid, 1, len(grid))
get_empty_squares(grid) == empty_from(grid, 0, len(grid))

\* Board.is_empty(grid)
is_empty(grid) == Len(get_empty_squares(grid)) = DIMENSIONS * DIMENSIONS

\* The table of get_winner, in its order; winning_combos[i + 1] is the
\* source's winning_combos[i].
winning_combos == << <<0, 1, 2>>, <<3, 4, 5>>, <<6, 7, 8>>,
                     <<0, 3, 6>>, <<1, 4, 7>>, <<2, 5, 8>>,
                     <<0, 4, 8>>, <<2, 4, 6>> >>
\* The test of a combo without its third cell.
combo_two_equal(grid, combo) ==
    /\ grid[combo[1]] # None
    /\ grid[combo[1]] = grid[combo[2]]
combo_complete(grid, combo) ==
    /\ grid[combo[1]] # None
    /\ grid[combo[1]] = grid[combo[2]]
    /\ grid[combo[2]] = grid[combo[3]]

\* The for loop of get_winner without its early return: the last complete
\* combo from `i` on.
RECURSIVE last_complete(_, _)
last_complete(grid, i) ==
    IF i >= Len(winning_combos) THEN None
    ELSE LET later == last_complete(grid, i + 1)
         IN  IF later # None THEN later
             ELSE IF combo_complete(grid, winning_combos[i + 1]) THEN i
             ELSE None

\* The for loop of get_winner: the first index i (0-based) from `i` on whose
\* combo is complete, or None.
RECURSIVE first_complete(_, _)
first_complete(grid, i) ==
    IF i >= Len(winning_combos) THEN None
    ELSE IF combo_complete(grid, winning_combos[i + 1]) THEN i
    ELSE first_complete(grid, i + 1)

\* Board.get_winner(grid): [ret |-> the value returned, winning_index |->
\* self.winning_index after the call].  Only the two returns that find a win
\* or a draw assign self.winning_index; the final `return None` does not.
get_winner(h, self, grid_arg) ==
    LET grid == IF grid_arg = NoArg THEN h[self.grid] ELSE grid_arg[1]
        i == first_complete(grid, 0)
    IN  IF i # None
        THEN [ret |-> grid[winning_combos[i + 1][1]], winning_index |-> i]
        ELSE IF Len(get_empty_squares(grid)) = 0
        THEN [ret |-> DRAW, winning_index |-> None]
        ELSE [ret |-> None, winning_index |-> self.winning_index]

\* clone without the copy: a new Board on the same list.
clone_shared(h, self) == Board_init(h, self.grid)
\* Board.clone(): a new Board on a copy of the list.
clone(h, self) == Board_init(Append(h, copy(h[self.grid])), Len(h) + 1)

\* switch_player that does not switch.
same_player(player) == player
switch_player(player) == IF player = PLAYER_X THEN PLAYER_O ELSE PLAYER_X

(***************************************************************************)
(* minimax(board, player).                                                 *)
(*                                                                         *)
(* minimax_at is the body of the function, on a heap holding the given     *)
(* board's list: it returns the score, the move, and the cells of the      *)
(* given board as the call leaves them.  Its recursive call (line 95) is   *)
(* read from the parameter sub, the table of the calls on boards with      *)
(* fewer empty cells.  The function is recursive on boards with one empty  *)
(* cell fewer, so MinimaxTable tabulates it by the number of empty cells,  *)
(* each board's entry computed once by minimax_at from the entries of the  *)
(* boards below it; minimax reads the table.                               *)
(***************************************************************************)
\* line 97 with a strict comparison.
improves_strict(score, max_score) == score > max_score
\* line 97: `if score >= max_score`
improves(score, max_score) == score >= max_score

\* Boards and players numbered 1..NumKeys, for the tables: cell i is digit i
\* of the board's number in base 3 (None 0, X 1, O 2).
Pow3 == <<1, 3, 9, 27, 81, 243, 729, 2187, 6561>>
NumGrids == 3 * Pow3[9]
NumKeys == 2 * NumGrids
RECURSIVE GridNumber(_, _)
GridNumber(grid, i) ==
    IF i > 8 THEN 0
    ELSE (IF grid[i] = None THEN 0 ELSE grid[i]) * Pow3[i + 1]
         + GridNumber(grid, i + 1)
Key(grid, player) == 2 * GridNumber(grid, 0) + player
Digit(m, i) == (m \div Pow3[i + 1]) % 3
KeyGrid(n) ==
    [i \in 0..8 |-> LET d == Digit((n - 1) \div 2, i)
                    IN  IF d = 0 THEN None ELSE d]
KeyPlayer(n) == 1 + ((n - 1) % 2)
RECURSIVE ZeroDigits(_, _)
ZeroDigits(m, i) ==
    IF i > 8 THEN 0
    ELSE (IF Digit(m, i) = 0 THEN 1 ELSE 0) + ZeroDigits(m, i + 1)
EmptyCount == [n \in 1..NumKeys |-> ZeroDigits((n - 1) \div 2, 0)] \o <<>>

\* What is recorded of the recursive calls made below a call: depth, the
\* longest chain of nested calls below it; shrinks, whether every call below
\* it was made on a board with exactly one empty cell fewer than its
\* caller's.
NoCalls == [depth |-> 0, shrinks |-> TRUE]
Larger(a, b) == IF a >= b THEN a ELSE b

RECURSIVE minimax_loop(_, _, _, _, _, _, _, _, _)
minimax_loop(sub, h, board_, player, squares, k, max_score, best_move, calls) ==
    IF k > Len(squares)
    THEN [score |-> SCORES[player] * max_score, move |-> best_move,
          grid |-> h[board_.grid],
          depth |-> calls.depth, shrinks |-> calls.shrinks]
    ELSE LET square == squares[k]
             c == clone(h, board_)
             h2 == make_move(c.h, c.b, square, player)
             below == sub[Key(h2[c.b.grid], switch_player(player))]
             score == SCORES[player] * below.score
             \* what the callee left in board_copy's list; board_copy is
             \* dropped when the iteration ends
             h3 == [h2 EXCEPT ![c.b.grid] = below.grid]
             hnext == SubSeq(h3, 1, Len(h))
             called ==
                 [depth |-> Larger(calls.depth, 1 + below.depth),
                  shrinks |->
                     /\ calls.shrinks
                     /\ below.shrinks
                     /\ Len(get_empty_squares(h2[c.b.grid]))
                          = Len(squares) - 1]
         IN  IF improves(score, max_score)
             THEN minimax_loop(sub, hnext, board_, player, squares, k + 1,
                               score, square, called)
             ELSE minimax_loop(sub, hnext, board_, player, squares, k + 1,
                               max_score, best_move, called)

minimax_at(sub, grid, player) ==
    LET h == <<grid>>
        board_ == [grid |-> 1, winning_index |-> None]
        winner == get_winner(h, board_, NoArg).ret
    IN  IF winner # None
        THEN [score |-> SCORES[winner], move |-> None, grid |-> grid,
              depth |-> 0, shrinks |-> TRUE]
        ELSE minimax_loop(sub, h, board_, player, get_empty_squares(grid), 1,
                          -1, None, NoCalls)

\* The entry of a call not tabulated (yet): a call on a board that is not
\* among the boards with fewer empty cells.
NoResult ==
    [score |-> 0, move |-> None, grid |-> <<>>, depth |-> 0,
     shrinks |-> FALSE]
RECURSIVE MinimaxUpTo(_)
MinimaxUpTo(e) ==
    IF e < 0 THEN [n \in 1..NumKeys |-> NoResult] \o <<>>
    ELSE LET below == MinimaxUpTo(e - 1)
         IN  [n \in 1..NumKeys |->
                 IF EmptyCount[n] = e
                 THEN minimax_at(below, KeyGrid(n), KeyPlayer(n))
                 ELSE below[n]] \o <<>>
MinimaxTable == MinimaxUpTo(DIMENSIONS * DIMENSIONS)

\* minimax(board, player) on a Board of the heap: the pair returned, and the
\* heap and the Board the call leaves (line 88 is a get_winner call on the
\* given board).
minimax(h, self, player) ==
    LET r == MinimaxTable[Key(h[self.grid], player)]
    IN  [score |-> r.score, move |-> r.move,
         depth |-> r.depth, shrinks |-> r.shrinks,
         h |-> [h EXCEPT ![self.grid] = r.grid],
         b |-> [self EXCEPT
                  !.winning_index = get_winner(h, self, NoArg).winning_index]]


(***************************************************************************)
(* The endpoints.  A request body is [keys |-> the keys present, grid |->  *)
(* a reference to the list parsed from the body, ai_player |-> ..., mode   *)
(* |-> ...]; a field is read only if its key is present.  A response is a  *)
(* record of the same fields for every endpoint; `kind` names the return   *)
(* statement that produced it:                                             *)
(*   "NoData" 'No data provided', "MissingFields" 'Missing required        *)
(*   field(s)', "InvalidDimension" 'Grid must have exactly 9 elements',    *)
(*   "InvalidPlayer" 'ai_player must be 1 (X) or 2 (O)',                   *)
(*   "InvalidDifficulty" 'Invalid mode', "NoLegalMove" 'No valid moves     *)
(*   available', "InternalFailure" 'Unable to determine valid move'.       *)
(***************************************************************************)
NoGrid == <<>>
NoDraw == [coin |-> FALSE, choice |-> None, randint |-> None]
Range(seq) == {seq[k] : k \in 1..Len(seq)}

Response(status, kind) ==
    [status |-> status, kind |-> kind, success |-> FALSE,
     move_index |-> None, grid |-> NoGrid, ai_player |-> None,
     winner |-> None, game_over |-> FALSE, winning_index |-> None,
     winner_name |-> "None", searched |-> FALSE]

\* The length check refusing only the shorter lists.
wrong_length_below(grid) == len(grid) < 9
\* lines 136 and 219: `len(grid) != 9`
wrong_length(grid) == len(grid) # 9

\* The choice of the move without search: the first empty square.
choose_move_first_empty(h, board_, empty_squares, ai_player, mode, draws) ==
    [move_index |-> empty_squares[1], h |-> h, searched |-> FALSE]

\* lines 170-171: `_, move_index = minimax(board, ai_player)`, r being what
\* the call returned and left
minimax_move(r) == [move_index |-> r.move, h |-> r.h, searched |-> TRUE]

\* The choice of the move without search: the last empty square.
choose_move_last_empty(h, board_, empty_squares, ai_player, mode, draws) ==
    [move_index |-> empty_squares[Len(empty_squares)], h |-> h,
     searched |-> FALSE]

\* lines 155-171: the move chosen for the mode.  draws holds what the random
\* source returns where it is asked: choice is random.choice(empty_squares),
\* coin is `random.random() < 0.5`, randint is random.randint(0, 8).
\* [move_index, h (the heap left), searched (minimax was called)]
choose_move(h, board_, empty_squares, ai_player, mode, draws) ==
    IF mode = "easy"
    THEN [move_index |-> draws.choice, h |-> h, searched |-> FALSE]
    ELSE IF mode = "medium"
    THEN IF is_empty(h[board_.grid]) \/ draws.coin
         THEN [move_index |-> draws.choice, h |-> h, searched |-> FALSE]
         ELSE minimax_move(minimax(h, board_, ai_player))
    ELSE IF is_empty(h[board_.grid])
         THEN [move_index |-> draws.randint, h |-> h, searched |-> FALSE]
         ELSE minimax_move(minimax(h, board_, ai_player))

\* The move made on every list of the heap, the request's own included.
make_ai_move_shared(h2, m, ai_player) ==
    LET new_grid == Len(h2)
        h3 == [k \in DOMAIN h2 |->
                 [h2[k] EXCEPT ![m.move_index] = ai_player]]
    IN  [response |->
           [Response(200, "ok") EXCEPT
              !.success = TRUE,
              !.move_index = m.move_index,
              !.grid = h3[new_grid],
              !.ai_player = ai_player,
              !.searched = m.searched],
         h |-> h3]

\* lines 175-181: the move made on new_grid, the copy of the request's grid
\* just appended to the heap h2
make_ai_move(h2, m, ai_player) ==
    LET new_grid == Len(h2)
        h3 == [h2 EXCEPT ![new_grid][m.move_index] = ai_player]
    IN  [response |->
           [Response(200, "ok") EXCEPT
              !.success = TRUE,
              !.move_index = m.move_index,
              !.grid = h3[new_grid],
              !.ai_player = ai_player,
              !.searched = m.searched],
         h |-> h3]

\* The answer with the move made on the request's own list (no copy at line
\* 175).
answer_move_in_place(m, grid, empty_squares, ai_player) ==
    IF m.move_index # None /\ m.move_index \in Range(empty_squares)
    THEN make_ai_move([m.h EXCEPT ![grid][m.move_index] = ai_player,
                                  ![Len(m.h)] = m.h[grid]],
                      m, ai_player)
    ELSE [response |->
            [Response(500, "InternalFailure") EXCEPT !.searched = m.searched],
          h |-> m.h]

\* lines 173-185: the answer, m being what choose_move returned
answer_move(m, grid, empty_squares, ai_player) ==
    IF m.move_index # None /\ m.move_index \in Range(empty_squares)
    THEN make_ai_move(Append(m.h, copy(m.h[grid])), m, ai_player)
    ELSE [response |->
            [Response(500, "InternalFailure") EXCEPT !.searched = m.searched],
          h |-> m.h]

\* The answer without the check of lines 149-150.
ai_move_on_unguarded(c, empty_squares, grid, ai_player, mode, draws) ==
    answer_move(choose_move(c.h, c.b, empty_squares, ai_player, mode, draws),
                grid, empty_squares, ai_player)

\* lines 148-185: the legal moves of the Board c just constructed, and the
\* answer
ai_move_on(c, empty_squares, grid, ai_player, mode, draws) ==
    IF Len(empty_squares) = 0
    THEN [response |-> Response(400, "NoLegalMove"), h |-> c.h]
    ELSE answer_move(choose_move(c.h, c.b, empty_squares, ai_player, mode,
                                 draws),
                     grid, empty_squares, ai_player)

\* lines 145-185, after the four checks of the request's fields
ai_move_board(c, grid, ai_player, mode, draws) ==
    ai_move_on(c, get_empty_squares(c.h[c.b.grid]), grid, ai_player, mode,
               draws)
ai_move_valid(h, grid, ai_player, mode, draws) ==
    ai_move_board(Board_init(Append(h, copy(h[grid])), Len(h) + 1),
                  grid, ai_player, mode, draws)

\* /ai/move with the check of the mode (lines 142-143) made after the move
\* was chosen.
ai_move_mode_checked_late(h, data, draws) ==
    IF data.keys = {}
    THEN [response |-> Response(400, "NoData"), h |-> h]
    ELSE LET grid == IF "grid" \in data.keys THEN data.grid ELSE None
             ai_player == IF "ai_player" \in data.keys THEN data.ai_player
                          ELSE None
             mode == IF "mode" \in data.keys THEN data.mode ELSE "difficult"
         IN  IF grid = None \/ ai_player = None
             THEN [response |-> Response(400, "MissingFields"), h |-> h]
             ELSE IF wrong_length(h[grid])
             THEN [response |-> Response(400, "InvalidDimension"), h |-> h]
             ELSE IF ai_player \notin {PLAYER_X, PLAYER_O}
             THEN [response |-> Response(400, "InvalidPlayer"), h |-> h]
             ELSE IF mode \notin GAME_MODES
             THEN [response |->
                     [Response(400, "InvalidDifficulty") EXCEPT
                        !.searched =
                           ai_move_valid(h, grid, ai_player, mode,
                                         draws).response.searched],
                   h |-> h]
             ELSE ai_move_valid(h, grid, ai_player, mode, draws)

\* POST /ai/move: [response, h (the heap the call leaves)]
ai_move(h, data, draws) ==
    IF data.keys = {}
    THEN [response |-> Response(400, "NoData"), h |-> h]
    ELSE LET grid == IF "grid" \in data.keys THEN data.grid ELSE None
             ai_player == IF "ai_player" \in data.keys THEN data.ai_player
                          ELSE None
             mode == IF "mode" \in data.keys THEN data.mode ELSE "difficult"
         IN  IF grid = None \/ ai_player = None
             THEN [response |-> Response(400, "MissingFields"), h |-> h]
             ELSE IF wrong_length(h[grid])
             THEN [response |-> Response(400, "InvalidDimension"), h |-> h]
             ELSE IF ai_player \notin {PLAYER_X, PLAYER_O}
             THEN [response |-> Response(400, "InvalidPlayer"), h |-> h]
             ELSE IF mode \notin GAME_MODES
             THEN [response |-> Response(400, "InvalidDifficulty"), h |-> h]
             ELSE ai_move_valid(h, grid, ai_player, mode, draws)

\* POST /game/check_winner: [response, h]
check_winner(h, data) ==
    IF data.keys = {}
    THEN [response |-> Response(400, "NoData"), h |-> h]
    ELSE LET grid == IF "grid" \in data.keys THEN data.grid ELSE None
         IN  IF grid = None
             THEN [response |-> Response(400, "MissingFields"), h |-> h]
             ELSE IF wrong_length(h[grid])
             THEN [response |-> Response(400, "InvalidDimension"), h |-> h]
             ELSE LET c == Board_init(h, grid)
                      w == get_winner(c.h, c.b, NoArg)
                  IN  [response |->
                         [Response(200, "ok") EXCEPT
                            !.winner = w.ret,
                            !.game_over = (w.ret # None),
                            !.winning_index = w.winning_index,
                            !.winner_name =
                               IF w.ret = PLAYER_X THEN "Player X"
                               ELSE IF w.ret = PLAYER_O THEN "Player O"
                               ELSE IF w.ret = DRAW THEN "Draw"
                               ELSE "None"],
                       h |-> c.h]

\* POST /game/reset
reset_game ==
    [Response(200, "ok") EXCEPT !.success = TRUE, !.grid = NewList(9)]

(***************************************************************************)
(* The core called directly: a caller holds a list, constructs a Board on  *)
(* it and calls the Board's methods and minimax.                           *)
(***************************************************************************)
\* Longest list a caller supplies with a length other than 9.
MaxLen == 10
\* The caller's lists: every 9-cell grid, and lists of the other lengths.
InputLists ==
    ListsOver(DIMENSIONS * DIMENSIONS, CellValues)
      \cup UNION {ListsOver(n, {None, PLAYER_X}) :
                    n \in (0..MaxLen) \ {DIMENSIONS * DIMENSIONS}}

NoCall == [op |-> "none"]

InitCore ==
    /\ heap \in {<<l>> : l \in InputLists}
    /\ board = NoBoard
    /\ ret = NoCall
    /\ turn = None
    /\ ai = None
    /\ board_copy = NoBoard

\* board = Board(grid), on the caller's list
Construct ==
    /\ board = NoBoard
    /\ LET r == Board_init(heap, 1)
       IN  /\ heap' = r.h
           /\ board' = r.b
    /\ ret' = [op |-> "Board"]
    /\ UNCHANGED <<turn, ai, board_copy>>

\* board.get_winner(), on a 9-cell Board
GetWinner ==
    /\ board # NoBoard
    /\ len(heap[board.grid]) = DIMENSIONS * DIMENSIONS
    /\ LET r == get_winner(heap, board, NoArg)
       IN  /\ board' = [board EXCEPT !.winning_index = r.winning_index]
           /\ ret' = [op |-> "get_winner", ret |-> r.ret, arg |-> NoArg]
    /\ UNCHANGED <<heap, turn, ai, board_copy>>

\* minimax(board, player), on a 9-cell Board
Minimax(player) ==
    /\ board # NoBoard
    /\ len(heap[board.grid]) = DIMENSIONS * DIMENSIONS
    /\ LET r == minimax(heap, board, player)
       IN  /\ heap' = r.h
           /\ board' = r.b
           /\ ret' = [op |-> "minimax", player |-> player,
                      score |-> r.score, move |-> r.move,
                      depth |-> r.depth, shrinks |-> r.shrinks]
    /\ UNCHANGED <<turn, ai, board_copy>>

NextCore ==
    \/ Construct
    \/ GetWinner
    \/ \E player \in Players : Minimax(player)

SpecCore == InitCore /\ [][NextCore]_vars


(***************************************************************************)
(* The endpoints called with any request: a client holds a list (heap[1])  *)
(* and sends it, or part of a body, to an endpoint.  The lists a call      *)
(* allocates are dropped when it returns; the caller's list stays.         *)
(***************************************************************************)
AiPlayerInputs == {DRAW, PLAYER_X, PLAYER_O}
ModeInputs == GAME_MODES \cup {"hard"}
Body(keys, ai_player, mode) ==
    [keys |-> keys, grid |-> 1, ai_player |-> ai_player, mode |-> mode]
AiMoveBodies ==
    {Body({"grid", "ai_player", "mode"}, p, m) :
        p \in AiPlayerInputs, m \in ModeInputs}
      \cup {Body({"grid", "ai_player"}, PLAYER_O, "")}
      \cup {Body({}, None, ""), Body({"grid"}, None, ""),
            Body({"ai_player", "mode"}, PLAYER_X, "easy")}
CheckWinnerBodies == {Body({"grid"}, None, ""), Body({}, None, "")}

\* What the random source can return for a request: a draw is listed only
\* where the code asks for it (NoDraw elsewhere).
Draws(l, data) ==
    LET mode == IF "mode" \in data.keys THEN data.mode ELSE "difficult"
        empty_squares == Range(get_empty_squares(l))
        choices == {[NoDraw EXCEPT !.coin = TRUE, !.choice = c] :
                      c \in empty_squares}
    IN  IF ~ ({"grid", "ai_player"} \subseteq data.keys
              /\ len(l) = 9 /\ data.ai_player \in Players
              /\ mode \in GAME_MODES /\ empty_squares # {})
        THEN {NoDraw}
        ELSE IF mode = "easy" THEN choices
        ELSE IF mode = "medium"
        THEN IF is_empty(l) THEN choices ELSE choices \cup {NoDraw}
        ELSE IF is_empty(l)
             THEN {[NoDraw EXCEPT !.randint = r] : r \in 0..8}
             ELSE {NoDraw}

InitApi ==
    /\ heap \in {<<l>> : l \in InputLists}
    /\ board = NoBoard
    /\ ret = NoCall
    /\ turn = None
    /\ ai = None
    /\ board_copy = NoBoard

CallAiMove(data, draws) ==
    /\ ret = NoCall
    /\ LET r == ai_move(heap, data, draws)
       IN  /\ heap' = SubSeq(r.h, 1, 1)
           /\ ret' = [op |-> "ai_move", data |-> data, draws |-> draws,
                      response |-> r.response]
    /\ UNCHANGED <<board, turn, ai, board_copy>>

CallCheckWinner(data) ==
    /\ ret = NoCall
    /\ LET r == check_winner(heap, data)
       IN  /\ heap' = SubSeq(r.h, 1, 1)
           /\ ret' = [op |-> "check_winner", data |-> data,
                      response |-> r.response]
    /\ UNCHANGED <<board, turn, ai, board_copy>>

CallResetGame ==
    /\ ret = NoCall
    /\ ret' = [op |-> "reset_game", data |-> Body({}, None, ""),
               response |-> reset_game]
    /\ UNCHANGED <<heap, board, turn, ai, board_copy>>

AnyAiMove ==
    /\ ret = NoCall
    /\ \E data \in AiMoveBodies :
          \E draws \in Draws(heap[1], data) : CallAiMove(data, draws)

AnyCheckWinner ==
    /\ ret = NoCall
    /\ \E data \in CheckWinnerBodies : CallCheckWinner(data)

NextApi ==
    \/ AnyAiMove
    \/ AnyCheckWinner
    \/ CallResetGame

SpecApi == InitApi /\ [][NextApi]_vars

(***************************************************************************)
(* A game played through the endpoints, by legal alternating play from the *)
(* empty grid: the client holds the grid (heap[1]); the player to move     *)
(* places a mark itself or asks /ai/move for the move and adopts the grid  *)
(* of the response.  Either player may start.                              *)
(***************************************************************************)
Ongoing(l) == first_complete(l, 0) = None /\ Len(get_empty_squares(l)) > 0

InitGame ==
    /\ heap = <<NewList(9)>>
    /\ board = NoBoard
    /\ ret = NoCall
    /\ turn \in Players
    /\ ai = None
    /\ board_copy = NoBoard

\* The player to move places its own mark on an empty cell.
ClientMove(square) ==
    /\ ret = NoCall
    /\ Ongoing(heap[1])
    /\ heap[1][square] = None
    /\ heap' = <<[heap[1] EXCEPT ![square] = turn]>>
    /\ turn' = switch_player(turn)
    /\ UNCHANGED <<board, ret, ai, board_copy>>

\* The player to move asks /ai/move for its move.
AskAi(mode) ==
    /\ ret = NoCall
    /\ Ongoing(heap[1])
    /\ LET data == Body({"grid", "ai_player", "mode"}, turn, mode)
       IN  \E draws \in Draws(heap[1], data) : CallAiMove(data, draws)

\* The client takes the grid of a successful response as its grid.
Adopt ==
    /\ ret.op \in {"ai_move", "reset_game"}
    /\ ret.response.success
    /\ heap' = <<ret.response.grid>>
    /\ IF ret.op = "ai_move" THEN turn' = switch_player(turn)
                             ELSE turn' \in Players
    /\ ret' = NoCall
    /\ UNCHANGED <<board, ai, board_copy>>

\* The client is done with the last answer.
Dismiss ==
    /\ ret # NoCall
    /\ ret' = NoCall
    /\ UNCHANGED <<heap, board, turn, ai, board_copy>>

\* minimax(Board(grid.copy()), player) for the player to move, as ai_move
\* calls it (lines 146 and 171), keeping the score.
Evaluate ==
    /\ ret = NoCall
    /\ LET c == Board_init(Append(heap, copy(heap[1])), Len(heap) + 1)
           r == minimax(c.h, c.b, turn)
       IN  /\ heap' = SubSeq(r.h, 1, 1)
           /\ ret' = [op |-> "minimax", player |-> turn,
                      score |-> r.score, move |-> r.move]
    /\ UNCHANGED <<board, turn, ai, board_copy>>

NextGame ==
    \/ \E square \in 0..8 : ClientMove(square)
    \/ \E mode \in GAME_MODES : AskAi(mode)
    \/ Adopt
    \/ Dismiss
    \/ Evaluate
    \/ CallCheckWinner(Body({"grid"}, None, ""))
    \/ CallResetGame

SpecGame == InitGame /\ [][NextGame]_vars


(***************************************************************************)
(* One Board used through its methods: a caller constructs Board() and     *)
(* calls make_move and get_winner on it in any order, get_winner on the    *)
(* Board's own grid or on a grid it supplies.                              *)
(***************************************************************************)
\* The grids a caller supplies to get_winner: the empty grid, a win of X on
\* line 0 with marks elsewhere, a win of O on line 7, a full grid without a
\* line.
GridArgs ==
    LET N == None
        X == PLAYER_X
        O == PLAYER_O
        list(seq) == [i \in 0..(Len(seq) - 1) |-> seq[i + 1]]
    IN  {list(<<N, N, N, N, N, N, N, N, N>>),
         list(<<X, X, X, O, O, N, N, N, N>>),
         list(<<X, X, O, X, O, N, O, N, N>>),
         list(<<X, O, X, X, O, O, O, X, X>>)}

InitBoard ==
    /\ LET r == Board_init(<<>>, None)
       IN  /\ heap = r.h
           /\ board = r.b
    /\ ret = NoCall
    /\ turn = None
    /\ ai = None
    /\ board_copy = NoBoard

\* Most marks a caller puts on a Board with make_move.
MaxMarks == 4
Marks(l) == Cardinality({i \in DOMAIN l : l[i] # None})

\* board.make_move(square, player)
MakeMove(square, player) ==
    /\ board # NoBoard
    /\ Marks(heap[board.grid]) < MaxMarks \/ heap[board.grid][square] # None
    /\ heap' = make_move(heap, board, square, player)
    /\ ret' = [op |-> "make_move"]
    /\ UNCHANGED <<board, turn, ai, board_copy>>

\* board.get_winner(grid), with a grid of the caller's
GetWinnerOf(grid) ==
    /\ board # NoBoard
    /\ LET r == get_winner(heap, board, Arg(grid))
       IN  /\ board' = [board EXCEPT !.winning_index = r.winning_index]
           /\ ret' = [op |-> "get_winner", ret |-> r.ret, arg |-> Arg(grid)]
    /\ UNCHANGED <<heap, turn, ai, board_copy>>

NextBoard ==
    \/ \E square \in 0..8, player \in Players : MakeMove(square, player)
    \/ GetWinner
    \/ \E grid \in GridArgs : GetWinnerOf(grid)

SpecBoard == InitBoard /\ [][NextBoard]_vars


(***************************************************************************)
(* A Board and its clone: a caller constructs Board(), may first have a    *)
(* supplied grid examined by get_winner, and calls clone() once and        *)
(* make_move on the Board and on the clone in any order.                   *)
(***************************************************************************)
\* Most marks on the Board and its clone together.
MaxCloneMarks == 3
CloneMarks ==
    Marks(heap[board.grid])
      + (IF board_copy = NoBoard THEN 0 ELSE Marks(heap[board_copy.grid]))

\* board_copy = board.clone()
Clone ==
    /\ board # NoBoard
    /\ board_copy = NoBoard
    /\ LET r == clone(heap, board)
       IN  /\ heap' = r.h
           /\ board_copy' = r.b
    /\ ret' = [op |-> "clone"]
    /\ UNCHANGED <<board, turn, ai>>

\* board_copy.make_move(square, player)
MakeMoveCopy(square, player) ==
    /\ board_copy # NoBoard
    /\ CloneMarks < MaxCloneMarks \/ heap[board_copy.grid][square] # None
    /\ heap' = make_move(heap, board_copy, square, player)
    /\ ret' = [op |-> "make_move"]
    /\ UNCHANGED <<board, turn, ai, board_copy>>

NextClone ==
    \/ \E square \in 0..8, player \in Players :
          /\ CloneMarks < MaxCloneMarks \/ heap[board.grid][square] # None
          /\ MakeMove(square, player)
    \/ ret = NoCall /\ \E grid \in GridArgs : GetWinnerOf(grid)
    \/ Clone
    \/ \E square \in 0..8, player \in Players : MakeMoveCopy(square, player)

SpecClone == InitBoard /\ [][NextClone]_vars


(***************************************************************************)
(* The same request sent twice: a client holds a grid with as many marks   *)
(* of one player as of the other, or one more, sends it to /ai/move for    *)
(* the player `turn`, and sends the same request again while the random    *)
(* source returns what it returned the first time; the client may also     *)
(* have the position evaluated by minimax before.                          *)
(***************************************************************************)
CountOf(l, v) == Cardinality({i \in DOMAIN l : l[i] = v})
GameLists ==
    {l \in ListsOver(DIMENSIONS * DIMENSIONS, CellValues) :
        CountOf(l, PLAYER_X) - CountOf(l, PLAYER_O) \in {-1, 0, 1}}

InitTwice ==
    /\ heap \in {<<l>> : l \in GameLists}
    /\ board = NoBoard
    /\ ret = NoCall
    /\ turn \in Players
    /\ ai = None
    /\ board_copy = NoBoard

\* /ai/move for the player `turn`, on any grid.
AskAnew(mode) ==
    /\ ret = NoCall
    /\ LET data == Body({"grid", "ai_player", "mode"}, turn, mode)
       IN  \E draws \in Draws(heap[1], data) : CallAiMove(data, draws)

\* The last /ai/move request sent again, with the same random draws.
AskAgain ==
    /\ ret.op = "ai_move"
    /\ LET r == ai_move(heap, ret.data, ret.draws)
       IN  /\ heap' = SubSeq(r.h, 1, 1)
           /\ ret' = [op |-> "ai_move_again", data |-> ret.data,
                      draws |-> ret.draws, first |-> ret.response,
                      response |-> r.response]
    /\ UNCHANGED <<board, turn, ai, board_copy>>

NextTwice ==
    \/ \E mode \in GAME_MODES : AskAnew(mode)
    \/ AskAgain
    \/ Evaluate
    \/ Dismiss

SpecTwice == InitTwice /\ [][NextTwice]_vars


(***************************************************************************)
(* A game against the AI in difficult mode, from the empty grid, X moving  *)
(* first: the side `ai` asks /ai/move in difficult mode for each of its    *)
(* moves and adopts the grid of the response; the other side places any    *)
(* legal mark.                                                             *)
(***************************************************************************)
InitHard ==
    /\ heap = <<NewList(9)>>
    /\ board = NoBoard
    /\ ret = NoCall
    /\ turn = PLAYER_X
    /\ ai \in Players
    /\ board_copy = NoBoard

NextHard ==
    \/ turn = ai /\ AskAi("difficult")
    \/ ret.op = "ai_move" /\ Adopt
    \/ turn # ai /\ \E square \in 0..8 : ClientMove(square)

SpecHard == InitHard /\ [][NextHard]_vars


(***************************************************************************)
(* The game-theoretic value of a position, for the claims: +1 when X has a *)
(* line, -1 when O has one, 0 when the grid is full, and otherwise the     *)
(* best value the player to move can reach in one move, X taking the       *)
(* greatest and O the least.  Tabulated by the number of empty cells.      *)
(***************************************************************************)
Lines == {{0, 1, 2}, {3, 4, 5}, {6, 7, 8}, {0, 3, 6}, {1, 4, 7}, {2, 5, 8},
          {0, 4, 8}, {2, 4, 6}}
HasLine(l, p) == \E line \in Lines : \A i \in line : l[i] = p
EmptyCells(l) == {i \in DOMAIN l : l[i] = None}
Opponent(p) == 3 - p
Greatest(S) == CHOOSE v \in S : \A w \in S : w <= v
Least(S) == CHOOSE v \in S : \A w \in S : v <= w

\* Keys are numbered so that placing p on the empty cell i of the grid of
\* key n, the opponent to move next, is the key ChildKey(n, i).
ChildKey(n, i) ==
    LET p == KeyPlayer(n)
    IN  2 * ((n - 1) \div 2 + p * Pow3[i + 1]) + Opponent(p)
\* The keys alternating play can reach: the player to move has as many
\* marks as the opponent, or one fewer.
RECURSIVE CountDigit(_, _, _)
CountDigit(m, d, i) ==
    IF i > 8 THEN 0
    ELSE (IF Digit(m, i) = d THEN 1 ELSE 0) + CountDigit(m, d, i + 1)
Alternating(n) ==
    LET m == (n - 1) \div 2
        p == KeyPlayer(n)
    IN  CountDigit(m, Opponent(p), 0) - CountDigit(m, p, 0) \in {0, 1}

RECURSIVE ValueUpTo(_)
ValueUpTo(e) ==
    IF e < 0 THEN [n \in 1..NumKeys |-> 0] \o <<>>
    ELSE LET below == ValueUpTo(e - 1)
         IN  [n \in 1..NumKeys |->
                IF EmptyCount[n] # e THEN below[n]
                ELSE IF ~ Alternating(n) THEN 0
                ELSE LET l == KeyGrid(n)
                         next == {below[ChildKey(n, i)] : i \in EmptyCells(l)}
                     IN  IF HasLine(l, PLAYER_X) THEN 1
                         ELSE IF HasLine(l, PLAYER_O) THEN -1
                         ELSE IF e = 0 THEN 0
                         ELSE IF KeyPlayer(n) = PLAYER_X THEN Greatest(next)
                         ELSE Least(next)] \o <<>>
ValueTable == ValueUpTo(9)
GameValue(l, p) == ValueTable[Key(l, p)]


(***************************************************************************)
(* Vocabulary of the claims.                                               *)
(***************************************************************************)
TheGrid == heap[1]
AllEmpty(l) == \A i \in DOMAIN l : l[i] = None
Place(l, i, p) == [l EXCEPT ![i] = p]
OngoingPosition(l) ==
    ~ HasLine(l, PLAYER_X) /\ ~ HasLine(l, PLAYER_O) /\ EmptyCells(l) # {}
Terminal(l) ==
    HasLine(l, PLAYER_X) \/ HasLine(l, PLAYER_O) \/ EmptyCells(l) = {}
\* The fixed table of the eight lines, numbered 0..7.
CanonicalLines == << <<0, 1, 2>>, <<3, 4, 5>>, <<6, 7, 8>>,
                     <<0, 3, 6>>, <<1, 4, 7>>, <<2, 5, 8>>,
                     <<0, 4, 8>>, <<2, 4, 6>> >>
LineCells(k) == Range(CanonicalLines[k + 1])
CompleteLines(l) ==
    {k \in 0..7 : \E p \in Players : \A i \in LineCells(k) : l[i] = p}
\* The cells on which p completes a line at once.
WinningCells(l, p) == {i \in EmptyCells(l) : HasLine(Place(l, i, p), p)}
\* The score minimax gives the position after p takes cell i, seen by p.
MoverScore(l, i, p) ==
    SCORES[p] * MinimaxTable[Key(Place(l, i, p), Opponent(p))].score
BestCells(l, p) ==
    {i \in EmptyCells(l) :
        \A j \in EmptyCells(l) : MoverScore(l, j, p) <= MoverScore(l, i, p)}
\* A well-formed /ai/move request for a 9-cell grid with an empty cell.
ValidMoveRequest ==
    /\ ret.op = "ai_move"
    /\ {"grid", "ai_player"} \subseteq ret.data.keys
    /\ len(TheGrid) = 9
    /\ ret.data.ai_player \in Players
    /\ ("mode" \in ret.data.keys => ret.data.mode \in GAME_MODES)
    /\ EmptyCells(TheGrid) # {}
\* The answer of /ai/move in difficult mode to the player to move.
HardAnswer ==
    /\ ret.op = "ai_move"
    /\ ret.data.mode = "difficult"
    /\ ret.data.ai_player = turn

(***************************************************************************)
(* C1 (SpecGame).  On every ongoing position reached by legal alternating  *)
(* play, minimax for the player to move returns the game-theoretic value   *)
(* of the position, and its move is an empty cell whose taking leads to a  *)
(* position of that same value.                                            *)
(***************************************************************************)
C1_MinimaxIsGameValue ==
    (ret.op = "minimax" /\ OngoingPosition(TheGrid)) =>
        /\ ret.player = turn
        /\ ret.score = GameValue(TheGrid, turn)
        /\ ret.move \in EmptyCells(TheGrid)
        /\ GameValue(Place(TheGrid, ret.move, turn), Opponent(turn)) = ret.score

\* X to move in a lost position with at least four empty cells.
C1_Witness ==
    /\ ret.op = "minimax"
    /\ OngoingPosition(TheGrid)
    /\ turn = PLAYER_X
    /\ ret.score = -1
    /\ Cardinality(EmptyCells(TheGrid)) >= 4

(***************************************************************************)
(* C2 (SpecCore).  minimax on the all-empty board returns score 0, for     *)
(* PLAYER_X to move and for PLAYER_O to move.                              *)
(***************************************************************************)
C2_EmptyBoardIsDraw ==
    (ret.op = "minimax" /\ len(TheGrid) = 9 /\ AllEmpty(TheGrid)) =>
        ret.score = 0

C2_Witness ==
    /\ ret.op = "minimax"
    /\ len(TheGrid) = 9
    /\ AllEmpty(TheGrid)
    /\ ret.player = PLAYER_O
    /\ ret.score = 0

(***************************************************************************)
(* C3 (SpecCore).  For every 9-cell board and either player, the move      *)
(* minimax returns is None exactly when the board is terminal (a completed *)
(* line, or no empty cell), and is otherwise the index of an empty cell.   *)
(***************************************************************************)
C3_MoveIsEmptyCellOrNone ==
    ret.op = "minimax" =>
        /\ (ret.move = None) <=> Terminal(TheGrid)
        /\ ret.move # None => ret.move \in EmptyCells(TheGrid)

\* A move is returned for a player who loses whatever it plays.
C3_Witness ==
    /\ ret.op = "minimax"
    /\ ~ Terminal(TheGrid)
    /\ ret.move \in EmptyCells(TheGrid)
    /\ SCORES[ret.player] * ret.score = -1

(***************************************************************************)
(* C4 (SpecCore).  As claimed: among the empty cells of an ongoing board   *)
(* that give the mover the best value, minimax returns the first, the      *)
(* smallest index.                                                         *)
(***************************************************************************)
C4_FirstBestCell ==
    (ret.op = "minimax" /\ ~ Terminal(TheGrid)) =>
        ret.move = Least(BestCells(TheGrid, ret.player))

(***************************************************************************)
(* C4 as amended.  Among the empty cells of an ongoing board that give the *)
(* mover the best value, minimax returns the last, the greatest index.     *)
(***************************************************************************)
C4_LastBestCell ==
    (ret.op = "minimax" /\ ~ Terminal(TheGrid)) =>
        ret.move = Greatest(BestCells(TheGrid, ret.player))

\* Several cells are best and the greatest of them is returned.
C4_Witness ==
    /\ ret.op = "minimax"
    /\ ~ Terminal(TheGrid)
    /\ Cardinality(BestCells(TheGrid, ret.player)) >= 2
    /\ ret.move = Greatest(BestCells(TheGrid, ret.player))
    /\ ret.move # Least(BestCells(TheGrid, ret.player))

(***************************************************************************)
(* C5 (SpecApi).  As claimed: for every 9-cell grid with an empty cell,    *)
(* every valid AI player and every recognised difficulty, /ai/move         *)
(* succeeds with a move index that is an empty cell of the grid.           *)
(***************************************************************************)
C5_ChooseMoveSucceeds ==
    ValidMoveRequest =>
        /\ ret.response.success
        /\ ret.response.move_index \in EmptyCells(TheGrid)

(***************************************************************************)
(* C6 (SpecGame).  As claimed: in difficult mode, on a non-empty ongoing   *)
(* position where the AI can complete a line at once or the opponent       *)
(* could, the chosen cell completes a line for the AI or is a cell on      *)
(* which the opponent would have completed one.                            *)
(***************************************************************************)
C6_WinOrBlock ==
    (/\ HardAnswer
     /\ ~ AllEmpty(TheGrid)
     /\ OngoingPosition(TheGrid)
     /\ WinningCells(TheGrid, turn) \cup WinningCells(TheGrid, Opponent(turn))
          # {}) =>
        /\ ret.response.success
        /\ ret.response.move_index \in
             WinningCells(TheGrid, turn)
               \cup WinningCells(TheGrid, Opponent(turn))

(***************************************************************************)
(* C6 as amended.  In difficult mode, on such a position, the chosen cell  *)
(* is an empty cell and: when the AI can complete a line at once, the      *)
(* position after the move is won for the AI with best play (the move need *)
(* not complete the line); when it cannot and the opponent could, and the  *)
(* position is not already lost for the AI, the move is a block.           *)
(***************************************************************************)
C6_KeepsWinOrBlocks ==
    (/\ HardAnswer
     /\ ~ AllEmpty(TheGrid)
     /\ OngoingPosition(TheGrid)
     /\ WinningCells(TheGrid, turn) \cup WinningCells(TheGrid, Opponent(turn))
          # {}) =>
        /\ ret.response.success
        /\ ret.response.move_index \in EmptyCells(TheGrid)
        /\ WinningCells(TheGrid, turn) # {} =>
             GameValue(Place(TheGrid, ret.response.move_index, turn),
                       Opponent(turn)) = SCORES[turn]
        /\ (/\ WinningCells(TheGrid, turn) = {}
            /\ GameValue(TheGrid, turn) # SCORES[Opponent(turn)]) =>
             ret.response.move_index \in WinningCells(TheGrid, Opponent(turn))

\* The AI could complete a line at once and plays elsewhere, keeping the win.
C6_Witness ==
    /\ HardAnswer
    /\ OngoingPosition(TheGrid)
    /\ WinningCells(TheGrid, turn) # {}
    /\ ret.response.success
    /\ ret.response.move_index \notin
         WinningCells(TheGrid, turn) \cup WinningCells(TheGrid, Opponent(turn))

(***************************************************************************)
(* C7 (SpecCore).  For every 9-cell grid with a completed line, get_winner *)
(* returns the player on the first completed line of the fixed table and   *)
(* records that line's index as winning_index.                             *)
(***************************************************************************)
C7_FirstCompleteLine ==
    (ret.op = "get_winner" /\ CompleteLines(TheGrid) # {}) =>
        LET k == Least(CompleteLines(TheGrid))
        IN  /\ ret.ret = TheGrid[CanonicalLines[k + 1][1]]
            /\ ret.ret \in Players
            /\ board.winning_index = k

\* Lines of both players are complete and the first one is O's.
C7_Witness ==
    /\ ret.op = "get_winner"
    /\ HasLine(TheGrid, PLAYER_X)
    /\ HasLine(TheGrid, PLAYER_O)
    /\ ret.ret = PLAYER_O
    /\ board.winning_index = Least(CompleteLines(TheGrid))

(***************************************************************************)
(* C8 (SpecCore).  For every 9-cell grid with no completed line,           *)
(* get_winner returns None (ongoing) when a cell is empty, and DRAW with   *)
(* no winning line recorded when all nine cells are filled.                *)
(***************************************************************************)
C8_OngoingOrDraw ==
    (ret.op = "get_winner" /\ CompleteLines(TheGrid) = {}) =>
        IF EmptyCells(TheGrid) # {}
        THEN ret.ret = None
        ELSE ret.ret = DRAW /\ board.winning_index = None

C8_Witness ==
    /\ ret.op = "get_winner"
    /\ CompleteLines(TheGrid) = {}
    /\ EmptyCells(TheGrid) = {}
    /\ ret.ret = DRAW
    /\ board.winning_index = None

(***************************************************************************)
(* C9 (SpecCore).  As claimed: the constructor produces no Board holding a *)
(* grid of a length other than 9.                                          *)
(***************************************************************************)
C9_ConstructorRejectsLength ==
    board # NoBoard => len(heap[board.grid]) = 9

(***************************************************************************)
(* C9 as amended.  The constructor checks no length and never fails: the   *)
(* Board holds the very list it was given, whatever its length, untouched, *)
(* with no winning line recorded.                                          *)
(***************************************************************************)
C9_ConstructorKeepsList ==
    [][Construct => /\ board' # NoBoard
                    /\ board'.grid = 1
                    /\ board'.winning_index = None
                    /\ heap' = heap]_vars

\* A Board on a list of 7 cells.
C9_Witness ==
    /\ ret.op = "Board"
    /\ board # NoBoard
    /\ len(heap[board.grid]) = 7

(***************************************************************************)
(* C10 (SpecApi).  A grid whose length is not 9, sent to /ai/move with an  *)
(* AI player or to /game/check_winner, is answered with the client error   *)
(* InvalidDimension, and with neither a move nor an outcome.               *)
(***************************************************************************)
C10_InvalidDimension ==
    (/\ ret.op \in {"ai_move", "check_winner"}
     /\ "grid" \in ret.data.keys
     /\ ret.op = "ai_move" => "ai_player" \in ret.data.keys
     /\ len(TheGrid) # 9) =>
        /\ ret.response.status = 400
        /\ ret.response.kind = "InvalidDimension"
        /\ ~ ret.response.success
        /\ ret.response.move_index = None
        /\ ret.response.grid = NoGrid
        /\ ret.response.winner = None
        /\ ~ ret.response.game_over
        /\ ret.response.winning_index = None

\* /ai/move refuses a list of 10 cells sent with a valid player and mode.
C10_Witness ==
    /\ ret.op = "ai_move"
    /\ len(TheGrid) = 10
    /\ ret.data.keys = {"grid", "ai_player", "mode"}
    /\ ret.data.ai_player = PLAYER_X
    /\ ret.data.mode = "easy"
    /\ ret.response.kind = "InvalidDimension"


(***************************************************************************)
(* C11 (SpecApi).  A fully filled 9-cell grid sent to /ai/move with a      *)
(* valid AI player and a recognised difficulty (or none, which means       *)
(* difficult) is answered with the client error NoLegalMove, whatever the  *)
(* difficulty, and with neither a move index nor a new grid.               *)
(***************************************************************************)
FullGridRequest ==
    /\ ret.op = "ai_move"
    /\ {"grid", "ai_player"} \subseteq ret.data.keys
    /\ len(TheGrid) = 9
    /\ EmptyCells(TheGrid) = {}
    /\ ret.data.ai_player \in Players
    /\ ("mode" \in ret.data.keys => ret.data.mode \in GAME_MODES)

C11_FullGridNoLegalMove ==
    FullGridRequest =>
        /\ ret.response.status = 400
        /\ ret.response.kind = "NoLegalMove"
        /\ ~ ret.response.success
        /\ ret.response.move_index = None
        /\ ret.response.grid = NoGrid

\* A full grid without a completed line, refused in easy mode.
C11_Witness ==
    /\ FullGridRequest
    /\ CompleteLines(TheGrid) = {}
    /\ "mode" \in ret.data.keys
    /\ ret.data.mode = "easy"
    /\ ret.response.kind = "NoLegalMove"


(***************************************************************************)
(* C12 (SpecApi).  Whenever /ai/move succeeds, the caller's grid is left   *)
(* as it was, and the grid of the response equals the caller's grid in     *)
(* every cell except move_index, which was empty in the caller's grid and  *)
(* holds the AI player's mark in the response; on an empty grid the move   *)
(* index is in 0..8 and the response's grid has exactly one non-empty      *)
(* cell.                                                                   *)
(***************************************************************************)
NonEmptyCells(l) == {i \in DOMAIN l : l[i] # None}

C12_SuccessLeavesGrid ==
    [][(ret = NoCall /\ ret'.op = "ai_move" /\ ret'.response.success) =>
         LET answer == ret'.response
         IN  /\ heap' = heap
             /\ answer.move_index \in DOMAIN heap[1]
             /\ heap[1][answer.move_index] = None
             /\ answer.ai_player \in Players
             /\ answer.grid = Place(heap[1], answer.move_index,
                                    answer.ai_player)
             /\ AllEmpty(heap[1]) =>
                  /\ answer.move_index \in 0..8
                  /\ Cardinality(NonEmptyCells(answer.grid)) = 1]_vars

\* A move found by search on a grid with marks of both players: the caller
\* still holds its grid, the response holds the grid with the move.
C12_Witness ==
    /\ ret.op = "ai_move"
    /\ ret.response.success
    /\ ret.response.searched
    /\ NonEmptyCells(TheGrid) # {}
    /\ TheGrid[ret.response.move_index] = None
    /\ ret.response.grid # TheGrid
    /\ ret.response.grid =
         Place(TheGrid, ret.response.move_index, ret.data.ai_player)


(***************************************************************************)
(* C13 (SpecBoard).  Every step that is the call make_move(square, player) *)
(* leaves the whole board as it was when the cell is occupied, and         *)
(* otherwise changes that cell only, to the player's mark; and over every  *)
(* step of a Board's life (make_move and get_winner calls in any order)    *)
(* the grid keeps its 9 cells and a cell that is not empty keeps its       *)
(* value.                                                                  *)
(***************************************************************************)
C13_MakeMoveOnlyFillsEmpty ==
    [][/\ ret'.op = "make_move" =>
            \A square \in 0..8, player \in Players :
               (heap' = make_move(heap, board, square, player)) =>
                  /\ board' = board
                  /\ IF heap[board.grid][square] # None
                     THEN heap' = heap
                     ELSE heap' = [heap EXCEPT ![board.grid] =
                                     Place(heap[board.grid], square, player)]
       /\ DOMAIN heap'[board'.grid] = 0..8
       /\ \A i \in 0..8 :
            heap[board.grid][i] # None =>
               heap'[board'.grid][i] = heap[board.grid][i]]_vars

\* After a make_move call the Board holds marks of both players.
C13_Witness ==
    /\ ret.op = "make_move"
    /\ \E i, j \in 0..8 : /\ heap[board.grid][i] = PLAYER_X
                          /\ heap[board.grid][j] = PLAYER_O
    /\ Marks(heap[board.grid]) >= 3


(***************************************************************************)
(* C20 (SpecBoard).  As claimed: immediately after a get_winner call on a  *)
(* Board, on its own grid or on a supplied grid, the recorded              *)
(* winning_index is the first completed line of the grid just examined     *)
(* when the result is a player, and is None when the result is DRAW or     *)
(* None (ongoing): no line recorded by an earlier call survives a call     *)
(* that finds no win.                                                      *)
(***************************************************************************)
Examined == IF ret.arg = NoArg THEN heap[board.grid] ELSE ret.arg[1]

C20_RecordMatchesResult ==
    ret.op = "get_winner" =>
        /\ ret.ret \in Players =>
             board.winning_index = Least(CompleteLines(Examined))
        /\ ret.ret \in {DRAW, None} => board.winning_index = None


(***************************************************************************)
(* C14 (SpecClone).  A clone() call returns a Board on a list of its own   *)
(* whose cells equal the original's and whose winning_index is unset, and  *)
(* leaves the original as it was; afterwards every make_move call on the   *)
(* clone leaves the original's cells as they were, and every make_move     *)
(* call on the original leaves the clone's cells as they were.             *)
(***************************************************************************)
C14_CloneIndependent ==
    [][/\ Clone =>
            /\ board_copy'.grid # board.grid
            /\ heap'[board_copy'.grid] = heap[board.grid]
            /\ board_copy'.winning_index = None
            /\ heap'[board.grid] = heap[board.grid]
            /\ board' = board
       /\ (board_copy # NoBoard /\ ret'.op = "make_move" /\ heap' # heap) =>
            \A square \in 0..8, player \in Players :
               /\ heap' = make_move(heap, board_copy, square, player) =>
                    heap'[board.grid] = heap[board.grid]
               /\ heap' = make_move(heap, board, square, player) =>
                    heap'[board_copy.grid] = heap[board_copy.grid]]_vars

\* The original has a winning line recorded and the clone has none; each of
\* the two holds a mark on a cell that is empty in the other.
C14_Witness ==
    /\ board_copy # NoBoard
    /\ ret.op = "make_move"
    /\ board.winning_index # None
    /\ board_copy.winning_index = None
    /\ \E i, j \in 0..8 :
          /\ heap[board.grid][i] # None
          /\ heap[board_copy.grid][i] = None
          /\ heap[board_copy.grid][j] # None
          /\ heap[board.grid][j] = None


(***************************************************************************)
(* C15 (SpecTwice).  A /ai/move request sent a second time, with the same  *)
(* grid, AI player and difficulty and the same outcomes of the random      *)
(* draws, is answered as the first time: the same move index, the same     *)
(* grid, the same response; and no call, of /ai/move or of minimax, leaves *)
(* anything behind: the client's list, the only object that outlives a     *)
(* call, is after every step what it was before.                           *)
(***************************************************************************)
C15_SameAnswerTwice ==
    /\ [](ret.op = "ai_move_again" =>
            /\ ret.response.move_index = ret.first.move_index
            /\ ret.response.grid = ret.first.grid
            /\ ret.response = ret.first)
    /\ [][heap' = heap]_vars

\* A move found by search, and found again.
C15_Witness ==
    /\ ret.op = "ai_move_again"
    /\ ret.first.success
    /\ ret.first.searched
    /\ ret.response.success
    /\ ret.response.move_index = ret.first.move_index
    /\ Cardinality(EmptyCells(TheGrid)) >= 3


(***************************************************************************)
(* C16 (SpecApi).  In /ai/move every validation failure is reported before *)
(* any search: minimax is invoked only in a request with a grid of 9 cells *)
(* of which one at least is empty, an AI player in {X, O} and a recognised *)
(* difficulty (or none), and never in a request answered with one of the   *)
(* four validation errors (or with NoData or MissingFields).               *)
(***************************************************************************)
ValidationErrors ==
    {"InvalidDimension", "InvalidPlayer", "InvalidDifficulty", "NoLegalMove"}

C16_ValidationBeforeSearch ==
    ret.op = "ai_move" =>
        /\ ret.response.searched =>
             /\ {"grid", "ai_player"} \subseteq ret.data.keys
             /\ len(TheGrid) = 9
             /\ EmptyCells(TheGrid) # {}
             /\ ret.data.ai_player \in Players
             /\ "mode" \in ret.data.keys => ret.data.mode \in GAME_MODES
        /\ ret.response.kind \in
             ValidationErrors \cup {"NoData", "MissingFields"} =>
                ~ ret.response.searched

\* minimax was invoked in a medium-mode request, on a grid with one empty
\* cell.
C16_Witness ==
    /\ ret.op = "ai_move"
    /\ ret.response.searched
    /\ ret.data.mode = "medium"
    /\ Cardinality(EmptyCells(TheGrid)) = 1
    /\ ret.response.success


(***************************************************************************)
(* C17 (SpecHard).  In a game from the empty grid in which every move of   *)
(* one side is chosen by difficult mode and the other side plays any legal *)
(* moves, no position reached holds a completed line of the other side,    *)
(* whether the AI plays X (first) or O (second); and on its turn the AI is *)
(* always answered with a move.                                            *)
(***************************************************************************)
C17_HardNeverLoses ==
    /\ ~ HasLine(TheGrid, Opponent(ai))
    /\ ret.op = "ai_move" => ret.response.success

\* The AI, moving second, has completed a line on a grid the opponent
\* filled with four marks.
C17_Witness ==
    /\ ai = PLAYER_O
    /\ ret = NoCall
    /\ HasLine(TheGrid, PLAYER_O)
    /\ CountOf(TheGrid, PLAYER_X) = 4


(***************************************************************************)
(* C18 (SpecCore).  Every minimax call on a 9-cell board returns, and the  *)
(* chain of nested recursive calls below it is never longer than the       *)
(* number of empty cells of its board (at most 9): every recursive call is *)
(* made on a board with exactly one empty cell fewer than its caller's.    *)
(***************************************************************************)
C18_DepthBoundedByEmptyCells ==
    ret.op = "minimax" =>
        /\ ret.shrinks
        /\ ret.depth <= Cardinality(EmptyCells(TheGrid))
        /\ ret.depth <= DIMENSIONS * DIMENSIONS
        /\ Terminal(TheGrid) <=> ret.depth = 0

\* The search from the empty board goes nine calls deep.
C18_Witness ==
    /\ ret.op = "minimax"
    /\ AllEmpty(TheGrid)
    /\ ret.depth = 9
    /\ ret.shrinks

(***************************************************************************)
(* C19 (SpecCore).  minimax never modifies the cells of the board it is    *)
(* given: every hypothetical move, at every node of the search, is placed  *)
(* on a clone, so after minimax(board, player) the board's list holds what *)
(* it held before the call (and the caller's heap is what it was).         *)
(***************************************************************************)
C19_MinimaxLeavesBoard ==
    [][\A player \in Players :
          Minimax(player) =>
             /\ board'.grid = board.grid
             /\ heap'[board.grid] = heap[board.grid]
             /\ heap' = heap]_vars

\* A search that tried a move on each of at least five empty cells.
C19_Witness ==
    /\ ret.op = "minimax"
    /\ ret.move # None
    /\ Cardinality(EmptyCells(heap[board.grid])) >= 5
    /\ NonEmptyCells(heap[board.grid]) # {}


====
